---- MODULE Spec2Model ----
(***************************************************************************)
(* Model of src/app.py, class PenmanMonteithCalculator:                    *)
(*   calculate_solar_radiation  (lines 182-203)                            *)
(*   penman_monteith_et0        (lines 205-233)                            *)
(*   process_weather_data       (lines 235-336)                            *)
(*                                                                         *)
(* Python floats are modelled as fixed-point numbers: the integer n stands *)
(* for the real n / ONE.  Every float operation that can raise in Python   *)
(* (division by zero, math.sqrt / math.acos outside their domain,          *)
(* math.exp overflow, float() of a bad string, a missing dict key) is a    *)
(* tagged outcome [ok |-> FALSE, err |-> <exception name>].                *)
(***************************************************************************)
EXTENDS Integers, Sequences, FiniteSets, TLC

\* ------------------------------------------------------------------------
\* Fixed-point arithmetic (the float operators +, -, *, / of the source)
\* ------------------------------------------------------------------------
ONE == 100 * 100

Abs(a) == IF a < 0 THEN -a ELSE a

Sgn(a) == IF a < 0 THEN -1 ELSE 1

Max(a, b) == IF a >= b THEN a ELSE b

Min(a, b) == IF a <= b THEN a ELSE b

\* an integer literal or a decimal literal num/den of the source as a float
Num(n) == n * ONE

Dec(num, den) == (num * ONE) \div den

\* a * b, truncated toward zero; the product is split so that no
\* intermediate value leaves the 32-bit range
Mul(a, b) ==
    LET x  == Abs(a)
        y  == Abs(b)
        xh == x \div ONE
        xl == x % ONE
        yh == y \div ONE
        yl == y % ONE
    IN  Sgn(a) * Sgn(b) * (xh * yh * ONE + xh * yl + xl * yh + (xl * yl) \div ONE)

RECURSIVE DivDigits(_, _, _)
DivDigits(r, y, k) ==
    IF k = 0 THEN 0
    ELSE ((r * 10) \div y) * (10 ^ (k - 1)) + DivDigits((r * 10) % y, y, k - 1)

\* a / b for b # 0 (the caller raises ZeroDivisionError first), by long
\* division, truncated toward zero
\* a divisor too large for the long division is first scaled down with the
\* dividend
Div(a, b) ==
    LET big == Abs(b) > 200000000
        x == IF big THEN Abs(a) \div 10 ELSE Abs(a)
        y == IF big THEN Abs(b) \div 10 ELSE Abs(b)
    IN  Sgn(a) * Sgn(b) * ((x \div y) * ONE + DivDigits(x % y, y, 4))

\* a / n for a positive integer n (sum(...) / len(...), x / 2)
DivInt(a, n) == Sgn(a) * (Abs(a) \div n)

\* ------------------------------------------------------------------------
\* The math module
\* ------------------------------------------------------------------------
\* math.pi
PI == Dec(31416, 10000)

RECURSIVE ExpSeries(_, _, _, _)
ExpSeries(x, term, n, acc) ==
    IF term = 0 \/ n > 40 THEN acc
    ELSE ExpSeries(x, DivInt(Mul(term, x), n), n + 1, acc + term)

\* math.exp raises OverflowError above ln(DBL_MAX) = 709.7827...
ExpOverflows(x) == x > Num(709) + Dec(7827, 10000)

\* math.exp(x) where it does not overflow.  Below -10 the value is under
\* the fixed-point resolution; above 2 the argument is halved and the
\* result squared.  Arguments above 12 (values above 1.6e5) are outside the
\* range the fixed-point numbers carry and are never demanded by the inputs
\* of this model.
RECURSIVE Exp(_)
Exp(x) ==
    IF x < Num(-10) THEN 0
    ELSE IF Abs(x) <= Num(2) THEN ExpSeries(x, ONE, 1, 0)
    ELSE LET h == Exp(DivInt(x, 2)) IN Mul(h, h)

RECURSIVE SinSeries(_, _, _, _)
SinSeries(x2, term, n, acc) ==
    IF term = 0 \/ n > 40 THEN acc
    ELSE SinSeries(x2, -DivInt(Mul(term, x2), n * (n + 1)), n + 2, acc + term)

\* reduction of an angle to [-pi, pi]
RECURSIVE Reduce(_)
Reduce(x) ==
    IF x > PI THEN Reduce(x - 2 * PI)
    ELSE IF x < -PI THEN Reduce(x + 2 * PI)
    ELSE x

\* math.sin, math.cos, math.tan
Sin(x) == LET r == Reduce(x) IN SinSeries(Mul(r, r), r, 2, 0)

Cos(x) == LET r == Reduce(x) IN SinSeries(Mul(r, r), ONE, 1, 0)

Tan(x) == Div(Sin(x), Cos(x))

\* math.radians
Radians(deg) == Div(Mul(deg, PI), Num(180))

\* math.acos raises ValueError("math domain error") outside [-1, 1]
AcosRaises(x) == x < -ONE \/ x > ONE

RECURSIVE AcosBisect(_, _, _, _)
AcosBisect(x, lo, hi, k) ==
    IF k = 0 \/ hi - lo <= 1 THEN lo
    ELSE LET mid == (lo + hi) \div 2
         IN  IF Cos(mid) > x THEN AcosBisect(x, mid, hi, k - 1)
             ELSE AcosBisect(x, lo, mid, k - 1)

\* math.acos(x) for x in [-1, 1]: the angle in [0, pi] whose cosine is x
Acos(x) ==
    IF x >= ONE THEN 0
    ELSE IF x <= -ONE THEN PI
    ELSE AcosBisect(x, 0, PI, 20)

\* math.sqrt raises ValueError("math domain error") below 0
SqrtRaises(x) == x < 0

RECURSIVE ISqrt(_, _, _)
ISqrt(n, lo, hi) ==
    IF hi - lo <= 1 THEN lo
    ELSE LET mid == (lo + hi) \div 2
         IN  IF mid * mid <= n THEN ISqrt(n, mid, hi) ELSE ISqrt(n, lo, mid)

\* math.sqrt(x) for 0 <= x < 2000
Sqrt(x) ==
    IF x <= 200000 THEN ISqrt(x * ONE, 0, 46340)
    ELSE 10 * ISqrt(x * 100, 0, 46340)

RECURSIVE LnSeries(_, _, _, _)
LnSeries(z2, term, n, acc) ==
    IF term = 0 \/ n > 40 THEN acc
    ELSE LnSeries(z2, Mul(term, z2), n + 2, acc + DivInt(term, n))

\* natural logarithm of b > 0: 2 * atanh((b - 1) / (b + 1))
Ln(b) ==
    LET z == Div(b - ONE, b + ONE)
    IN  2 * LnSeries(Mul(z, z), z, 1, 0)

\* b ** e for a float b > 0 (a negative base with a fractional exponent is
\* a complex number in Python and is outside the inputs of this model)
Pow(b, e) == Exp(Mul(e, Ln(b)))

\* round(x, 1) and round(x, 2): to the nearest multiple of step, ties to even
RoundTo(x, step) ==
    LET a == Abs(x)
        q == a \div step
        r == a % step
        up == (2 * r > step) \/ (2 * r = step /\ q % 2 = 1)
    IN  Sgn(x) * step * (IF up THEN q + 1 ELSE q)

Round1(x) == RoundTo(x, ONE \div 10)

Round2(x) == RoundTo(x, ONE \div 100)

\* ------------------------------------------------------------------------
\* Outcomes of a call: a returned value or a raised exception
\* ------------------------------------------------------------------------
Raise(e) == [ok |-> FALSE, err |-> e, Rs |-> 0, Ra |-> 0, v |-> 0]

ReturnPair(rs, ra) == [ok |-> TRUE, err |-> "", Rs |-> rs, Ra |-> ra, v |-> 0]

ReturnValue(x) == [ok |-> TRUE, err |-> "", Rs |-> 0, Ra |-> 0, v |-> x]

\* the optional argument sunshine_hours: None or a float
None == [given |-> FALSE, v |-> 0]

Some(x) == [given |-> TRUE, v |-> x]

\* ------------------------------------------------------------------------
\* calculate_solar_radiation
\* ------------------------------------------------------------------------
\* 2 * math.pi * day_of_year / 365
YearAngle(day_of_year) == Div(2 * PI * day_of_year, Num(365))

lat_rad(lat) == Radians(lat)

solar_declination(day_of_year) ==
    Mul(Dec(409, 1000), Sin(YearAngle(day_of_year) - Dec(139, 100)))

\* the argument handed to math.acos
AcosArg(lat, day_of_year) ==
    -Mul(Tan(lat_rad(lat)), Tan(solar_declination(day_of_year)))

sunset_hour_angle(lat, day_of_year) == Acos(AcosArg(lat, day_of_year))

dr(day_of_year) == ONE + Mul(Dec(33, 1000), Cos(YearAngle(day_of_year)))

Ra(lat, day_of_year) ==
    LET ws   == sunset_hour_angle(lat, day_of_year)
        decl == solar_declination(day_of_year)
        phi  == lat_rad(lat)
    IN  Mul(Mul(Mul(Div(Num(24 * 60), PI), Dec(82, 1000)), dr(day_of_year)),
            Mul(Mul(ws, Sin(phi)), Sin(decl))
              + Mul(Mul(Cos(phi), Cos(decl)), Sin(ws)))

\* 0.16 * math.sqrt(temp_max - temp_min) * Ra
Hargreaves(temp_max, temp_min, ra) ==
    LET temp_range == temp_max - temp_min
    IN  IF SqrtRaises(temp_range) THEN Raise("ValueError")
        ELSE ReturnPair(Mul(Mul(Dec(16, 100), Sqrt(temp_range)), ra), ra)

calculate_solar_radiation(lat, day_of_year, temp_max, temp_min, humidity, sunshine_hours) ==
    IF AcosRaises(AcosArg(lat, day_of_year)) THEN Raise("ValueError")
    ELSE LET ws == sunset_hour_angle(lat, day_of_year)
             ra == Ra(lat, day_of_year)
             N  == Mul(Div(Num(24), PI), ws)
         IN  IF sunshine_hours.given
             THEN IF N > 0
                  THEN ReturnPair(
                         Mul(Dec(25, 100)
                               + Div(Mul(Dec(50, 100), sunshine_hours.v), N), ra),
                         ra)
                  ELSE Hargreaves(temp_max, temp_min, ra)
             ELSE Hargreaves(temp_max, temp_min, ra)

\* ------------------------------------------------------------------------
\* penman_monteith_et0
\* ------------------------------------------------------------------------
\* 0.665 * (101.3 * ((293 - 0.0065 * elevation) / 293) ** 5.26)
gamma(elevation) ==
    Mul(Dec(665, 1000),
        Mul(Dec(1013, 10),
            Pow(Div(Num(293) - Mul(Dec(65, 10000), elevation), Num(293)),
                Dec(526, 100))))

\* the argument handed to math.exp for a temperature t # -237.3
SatArg(t) == Div(Mul(Dec(1727, 100), t), t + Dec(2373, 10))

\* 0.6108 * math.exp(17.27 * t / (t + 237.3)); raises at t = -237.3 and
\* where math.exp overflows
SatRaises(t) ==
    IF t + Dec(2373, 10) = 0 THEN "ZeroDivisionError"
    ELSE IF ExpOverflows(SatArg(t)) THEN "OverflowError"
    ELSE ""

SatVap(t) == Mul(Dec(6108, 10000), Exp(SatArg(t)))

es(temp_max, temp_min) == DivInt(SatVap(temp_max) + SatVap(temp_min), 2)

ea(temp_max, temp_min, humidity) ==
    Div(Mul(es(temp_max, temp_min), humidity), Num(100))

delta(temp_mean) ==
    Div(Mul(Num(4098), SatVap(temp_mean)),
        Mul(temp_mean + Dec(2373, 10), temp_mean + Dec(2373, 10)))

Rn(solar_radiation) == Mul(solar_radiation, Dec(77, 100))

G == 0 * ONE

numerator(temp_mean, temp_max, temp_min, humidity, wind_speed, solar_radiation, elevation) ==
    Mul(Mul(Dec(408, 1000), delta(temp_mean)), Rn(solar_radiation) - G)
      + Mul(Mul(Div(Mul(gamma(elevation), Num(900)), temp_mean + Num(273)),
                wind_speed),
            es(temp_max, temp_min) - ea(temp_max, temp_min, humidity))

denominator(temp_mean, wind_speed, elevation) ==
    delta(temp_mean)
      + Mul(gamma(elevation), ONE + Mul(Dec(34, 100), wind_speed))

\* numerator / denominator, line 231
RawET0(temp_mean, temp_max, temp_min, humidity, wind_speed, solar_radiation, elevation) ==
    Div(numerator(temp_mean, temp_max, temp_min, humidity, wind_speed,
                  solar_radiation, elevation),
        denominator(temp_mean, wind_speed, elevation))

\* max(0, et0) without the clamp
ClampDropped(et0) == et0

\* return max(0, et0), line 233
Clamp(et0) == Max(0, et0)

\* the exception lines 213-231 raise, "" when none: float division by zero
\* raises ZeroDivisionError, math.exp raises OverflowError
PenmanRaises(temp_mean, temp_max, temp_min, wind_speed, elevation) ==
    IF SatRaises(temp_max) # "" THEN SatRaises(temp_max)
    ELSE IF SatRaises(temp_min) # "" THEN SatRaises(temp_min)
    ELSE IF SatRaises(temp_mean) # "" THEN SatRaises(temp_mean)
    ELSE IF temp_mean + Num(273) = 0 THEN "ZeroDivisionError"
    ELSE IF denominator(temp_mean, wind_speed, elevation) = 0 THEN "ZeroDivisionError"
    ELSE ""

\* penman_monteith_et0 with the exception swallowed and 0 returned
penman_swallows(temp_mean, temp_max, temp_min, humidity, wind_speed, solar_radiation, elevation) ==
    IF PenmanRaises(temp_mean, temp_max, temp_min, wind_speed, elevation) # ""
    THEN ReturnValue(0)
    ELSE ReturnValue(Clamp(RawET0(temp_mean, temp_max, temp_min, humidity,
                                  wind_speed, solar_radiation, elevation)))

penman_monteith_et0(temp_mean, temp_max, temp_min, humidity, wind_speed, solar_radiation, elevation) ==
    IF PenmanRaises(temp_mean, temp_max, temp_min, wind_speed, elevation) # ""
    THEN Raise(PenmanRaises(temp_mean, temp_max, temp_min, wind_speed, elevation))
    ELSE ReturnValue(Clamp(RawET0(temp_mean, temp_max, temp_min, humidity,
                                  wind_speed, solar_radiation, elevation)))

\* ------------------------------------------------------------------------
\* The provider payload (the JSON handed to process_weather_data)
\* ------------------------------------------------------------------------
\* A value stored under a key of a JSON object: a string that float()
\* parses ("num"), a string it rejects ("bad"), or no such key ("absent").
NumField(x) == [k |-> "num", v |-> x]

BadField == [k |-> "bad", v |-> 0]

NoDate == <<0, 0, 0>>

\* the same for a 'date' key
DateField(d) == [k |-> "num", v |-> d]

BadDate == [k |-> "bad", v |-> NoDate]

AbsentField == [k |-> "absent", v |-> 0]

\* float(d[key]): KeyError for a missing key, ValueError for a bad string
FloatOf(f) ==
    IF f.k = "absent" THEN Raise("KeyError")
    ELSE IF f.k = "bad" THEN Raise("ValueError")
    ELSE ReturnValue(f.v)

\* A calendar date 'YYYY-MM-DD' is the tuple <<year, month, day>>.
IsLeap(y) == (y % 4 = 0 /\ y % 100 # 0) \/ y % 400 = 0

DaysIn(y, m) ==
    IF m = 2 THEN (IF IsLeap(y) THEN 29 ELSE 28)
    ELSE IF m \in {4, 6, 9, 11} THEN 30
    ELSE 31

RECURSIVE DaysBefore(_, _)
DaysBefore(y, m) == IF m = 1 THEN 0 ELSE DaysBefore(y, m - 1) + DaysIn(y, m - 1)

\* datetime.timetuple().tm_yday
tm_yday(d) == DaysBefore(d[1], d[2]) + d[3]

\* datetime.strptime(s, '%Y-%m-%d'): the field holds a date tuple in v
strptime(f) ==
    IF f.k = "absent" THEN Raise("KeyError")
    ELSE IF f.k = "bad" THEN Raise("ValueError")
    ELSE ReturnValue(f.v)

\* datetime.strftime('%Y-%m-%d'): the date of a datetime, its time dropped
strftime(dt) == <<dt.year, dt.month, dt.day>>

\* the order of 'YYYY-MM-DD' strings
DateLess(a, b) ==
    \/ a[1] < b[1]
    \/ a[1] = b[1] /\ a[2] < b[2]
    \/ a[1] = b[1] /\ a[2] = b[2] /\ a[3] < b[3]

\* float(x) * 0.277778
KmhToMs(x) == Sgn(x) * ((Abs(x) * 277 + (Abs(x) * 778) \div 1000) \div 1000)

RECURSIVE SumSeq(_)
SumSeq(s) == IF s = <<>> THEN 0 ELSE Head(s) + SumSeq(Tail(s))

\* [f(hour) for hour in hourly if key in hour]
RECURSIVE Reported(_, _)
Reported(hourly, key) ==
    IF hourly = <<>> THEN <<>>
    ELSE IF Head(hourly)[key].k = "absent" THEN Reported(Tail(hourly), key)
    ELSE <<Head(hourly)[key].v>> \o Reported(Tail(hourly), key)

RECURSIVE MapKmhToMs(_)
MapKmhToMs(s) ==
    IF s = <<>> THEN <<>> ELSE <<KmhToMs(Head(s))>> \o MapKmhToMs(Tail(s))

DEFAULT_LAT == 35

DEFAULT_HUMIDITY == 50

DEFAULT_WIND == 2

\* the slice weather_data['weather'][:14]
FORECAST_SLICE == 14

\* humidity of a forecast day, lines 307-316
humidity_values(day) == Reported(day.hourly.items, "humidity")

ForecastHumidity(day) ==
    IF day.hourly.present /\ Len(day.hourly.items) > 0
    THEN IF humidity_values(day) # <<>>
         THEN DivInt(SumSeq(humidity_values(day)), Len(humidity_values(day)))
         ELSE Num(DEFAULT_HUMIDITY)
    ELSE Num(DEFAULT_HUMIDITY)

\* wind speed of a forecast day, lines 307-316
wind_values(day) == MapKmhToMs(Reported(day.hourly.items, "windspeedKmph"))

ForecastWind(day) ==
    IF day.hourly.present /\ Len(day.hourly.items) > 0
    THEN IF wind_values(day) # <<>>
         THEN DivInt(SumSeq(wind_values(day)), Len(wind_values(day)))
         ELSE Num(DEFAULT_WIND)
    ELSE Num(DEFAULT_WIND)

\* (temp_max + temp_min) / 2, lines 263 and 304
MeanOfEnvelope(temp_max, temp_min) == DivInt(temp_max + temp_min, 2)

\* the local variables of process_weather_data that one day's block assigns
Locals(doy, tmax, tmin, tmean, hum, wind, rad, et) ==
    [day_of_year |-> doy, temp_max |-> tmax, temp_min |-> tmin,
     temp_mean |-> tmean, humidity |-> hum, wind_speed |-> wind,
     solar_rad |-> rad, et0 |-> et]

NoLocals == Locals(0, 0, 0, 0, 0, 0, 0, 0)

\* the dict appended to results, lines 282-291 and 325-334
Record(date, l) ==
    [Date |-> date,
     TempMean |-> Round1(l.temp_mean),
     TempMax |-> Round1(l.temp_max),
     TempMin |-> Round1(l.temp_min),
     Humidity |-> Round1(l.humidity),
     WindSpeed |-> Round1(l.wind_speed),
     SolarRadiation |-> Round2(l.solar_rad),
     ET0 |-> Round2(l.et0)]

DayRaise(e) == [ok |-> FALSE, err |-> e, loc |-> NoLocals, date |-> NoDate]

DayDone(date, l) == [ok |-> TRUE, err |-> "", loc |-> l, date |-> date]

\* the two estimator calls of a day's block, lines 275-280 and 318-323
Estimate(date, lat, doy, tmax, tmin, hum, wind) ==
    LET tmean == MeanOfEnvelope(tmax, tmin)
        sol   == calculate_solar_radiation(lat, doy, tmax, tmin, hum, None)
        et    == penman_monteith_et0(tmean, tmax, tmin, hum, wind, sol.Rs, 0)
    IN  IF ~sol.ok THEN DayRaise(sol.err)
        ELSE IF ~et.ok THEN DayRaise(et.err)
        ELSE DayDone(date, Locals(doy, tmax, tmin, tmean, hum, wind, sol.Rs, et.v))

\* the block for today, lines 257-291
TodayBlock(clock, today_weather, current, lat) ==
    LET tmax == FloatOf(today_weather.maxtempC)
        tmin == FloatOf(today_weather.mintempC)
        hum  == FloatOf(current.humidity)
        wind == FloatOf(current.windspeedKmph)
    IN  IF ~tmax.ok THEN DayRaise(tmax.err)
        ELSE IF ~tmin.ok THEN DayRaise(tmin.err)
        ELSE IF ~hum.ok THEN DayRaise(hum.err)
        ELSE IF ~wind.ok THEN DayRaise(wind.err)
        ELSE Estimate(strftime(clock), lat, tm_yday(strftime(clock)),
                      tmax.v, tmin.v, hum.v, KmhToMs(wind.v))

\* the body of the forecast loop for one day, lines 299-334
ForecastBlock(day_weather, lat) ==
    LET date == strptime(day_weather.date)
        tmax == FloatOf(day_weather.maxtempC)
        tmin == FloatOf(day_weather.mintempC)
    IN  IF ~date.ok THEN DayRaise(date.err)
        ELSE IF ~tmax.ok THEN DayRaise(tmax.err)
        ELSE IF ~tmin.ok THEN DayRaise(tmin.err)
        ELSE Estimate(date.v, lat, tm_yday(date.v), tmax.v, tmin.v,
                      ForecastHumidity(day_weather), ForecastWind(day_weather))

\* ------------------------------------------------------------------------
\* Inputs: the payloads get_weather_data can hand over, the clock, and the
\* arguments of direct calls of the two estimator functions
\* ------------------------------------------------------------------------
\* longest list of plain days
MaxDays == 15

\* longest list in which one day is of a special kind
MaxShort == 4

BaseDate == <<2026, 6, 20>>

NextDate(d) ==
    IF d[3] < DaysIn(d[1], d[2]) THEN <<d[1], d[2], d[3] + 1>>
    ELSE IF d[2] < 12 THEN <<d[1], d[2] + 1, 1>>
    ELSE <<d[1] + 1, 1, 1>>

RECURSIVE AddDays(_, _)
AddDays(d, n) == IF n = 0 THEN d ELSE AddDays(NextDate(d), n - 1)

PrevDate == <<2026, 6, 19>>

\* an entry of a day's 'hourly' list
Hour(h, w, t) == [humidity |-> h, windspeedKmph |-> w, tempC |-> t]

HourlyList(items) == [present |-> TRUE, items |-> items]

NoHourly == [present |-> FALSE, items |-> <<>>]

Day(date, tmax, tmin, hourly) ==
    [date |-> date, maxtempC |-> tmax, mintempC |-> tmin, hourly |-> hourly]

PlainHourly ==
    HourlyList(<<Hour(NumField(Num(40)), NumField(Num(10)), NumField(Num(18))),
                 Hour(NumField(Num(60)), NumField(Num(20)), NumField(Num(30)))>>)

PlainDay(date) ==
    Day(DateField(date), NumField(Num(30)), NumField(Num(15)), PlainHourly)

DayKinds ==
    {"plain", "nohourly", "emptyhourly", "partial", "humid", "inverted",
     "singular", "nomax", "baddate"}

DayOfKind(kind, date) ==
    CASE kind = "plain" -> PlainDay(date)
      [] kind = "nohourly" ->
           Day(DateField(date), NumField(Num(28)), NumField(Num(12)), NoHourly)
      [] kind = "emptyhourly" ->
           Day(DateField(date), NumField(Num(28)), NumField(Num(12)), HourlyList(<<>>))
      [] kind = "partial" ->
           Day(DateField(date), NumField(Num(26)), NumField(Num(14)),
               HourlyList(<<Hour(AbsentField, AbsentField, NumField(Num(16))),
                            Hour(NumField(Num(70)), AbsentField, NumField(Num(24))),
                            Hour(NumField(Num(45)), AbsentField, NumField(Num(26)))>>))
      [] kind = "humid" ->
           Day(DateField(date), NumField(Num(25)), NumField(Num(15)),
               HourlyList(<<Hour(NumField(Num(150)), NumField(Num(20)), NumField(Num(20)))>>))
      [] kind = "inverted" ->
           Day(DateField(date), NumField(Num(10)), NumField(Num(20)), PlainHourly)
      [] kind = "singular" ->
           Day(DateField(date), NumField(Num(-270)), NumField(Num(-276)), PlainHourly)
      [] kind = "nomax" ->
           Day(DateField(date), AbsentField, NumField(Num(15)), PlainHourly)
      [] kind = "baddate" ->
           Day(BadDate, NumField(Num(30)), NumField(Num(15)), PlainHourly)

\* n days with ascending dates from BaseDate, day k of the given kind
Weather(n, k, kind) ==
    [j \in 1..n |->
       IF j = k THEN DayOfKind(kind, AddDays(BaseDate, j - 1))
       ELSE PlainDay(AddDays(BaseDate, j - 1))]

PlainWeathers == {Weather(n, 1, "plain") : n \in 0..MaxDays}

SpecialWeathers ==
    {Weather(n, k, kind) :
       n \in 1..MaxShort, k \in 1..MaxShort, kind \in DayKinds \ {"plain"}}

\* the shapes of 'nearest_area': key absent, empty list, one entry
Area(lat_field) == [latitude |-> lat_field, longitude |-> NumField(Dec(23, 10))]

ResolvedArea == [present |-> TRUE, items |-> <<Area(NumField(Dec(485, 10)))>>]

Areas ==
    {[present |-> FALSE, items |-> <<>>],
     [present |-> TRUE, items |-> <<>>],
     ResolvedArea,
     [present |-> TRUE, items |-> <<Area(AbsentField)>>]}

\* the shapes of 'current_condition': key absent, empty list, one reading
Current(h, w) == [humidity |-> h, windspeedKmph |-> w]

Currents ==
    {[present |-> FALSE, items |-> <<>>],
     [present |-> TRUE, items |-> <<>>],
     [present |-> TRUE, items |-> <<Current(NumField(Num(55)), NumField(Num(12)))>>],
     [present |-> TRUE, items |-> <<Current(AbsentField, NumField(Num(12)))>>]}

\* weather_data: None, or a dict with some of the three keys
NonePayload ==
    [isNone |-> TRUE, hasWeather |-> FALSE, weather |-> <<>>,
     nearest_area |-> [present |-> FALSE, items |-> <<>>],
     current_condition |-> [present |-> FALSE, items |-> <<>>]]

Dict(hasWeather, weather, area, cc) ==
    [isNone |-> FALSE, hasWeather |-> hasWeather, weather |-> weather,
     nearest_area |-> area, current_condition |-> cc]

EmptyDict ==
    Dict(FALSE, <<>>, [present |-> FALSE, items |-> <<>>],
         [present |-> FALSE, items |-> <<>>])

Payloads ==
    {NonePayload, EmptyDict}
      \cup {Dict(FALSE, <<>>, a, c) : a \in Areas, c \in Currents}
      \cup {Dict(TRUE, w, a, c) : w \in PlainWeathers, a \in Areas, c \in Currents}
      \cup {Dict(TRUE, w, ResolvedArea, c) : w \in SpecialWeathers, c \in Currents}

\* datetime.now(): the provider's first day, the day before or the day after
DateTime(d, h) == [year |-> d[1], month |-> d[2], day |-> d[3], hour |-> h]

Clocks ==
    {DateTime(PrevDate, 23), DateTime(BaseDate, 12), DateTime(NextDate(BaseDate), 1)}

NoClock == DateTime(NoDate, 0)

\* arguments of a direct call of calculate_solar_radiation
SolarCalls ==
    {[fn |-> "solar", lat |-> la, day_of_year |-> d, temp_max |-> t[1],
      temp_min |-> t[2], temp_mean |-> 0, humidity |-> Num(40), wind_speed |-> 0,
      sunshine_hours |-> sh, solar_radiation |-> 0, elevation |-> 0] :
       la \in {Num(-70), Num(0), Num(35), Dec(485, 10), Num(66), Num(80)},
       d \in {1, 80, 172, 355, 366},
       t \in {<<Num(30), Num(15)>>, <<Num(10), Num(20)>>, <<Num(10), Num(10)>>,
              <<Dec(-55, 10), Dec(-125, 10)>>},
       sh \in {None, Some(0), Some(Num(8))}}

\* arguments of a direct call of penman_monteith_et0
ET0Calls ==
    {[fn |-> "et0", lat |-> Num(35), day_of_year |-> 0, temp_max |-> t[1],
      temp_min |-> t[2], temp_mean |-> tm, humidity |-> h, wind_speed |-> w,
      sunshine_hours |-> None, solar_radiation |-> sr, elevation |-> el] :
       tm \in {Num(-273), Dec(-2373, 10), Num(-10), Num(20), Dec(225, 10)},
       t \in {<<Num(30), Num(15)>>, <<Num(25), Num(15)>>, <<Num(5), Num(-15)>>},
       h \in {0, Num(40), Num(100), Num(150)},
       w \in {Num(-5), 0, Num(2), Num(10)},
       sr \in {Num(-5), 0, Num(1), Dec(258, 10)},
       el \in {0, Num(1000)}}

NoCall ==
    [fn |-> "", lat |-> 0, day_of_year |-> 0, temp_max |-> 0, temp_min |-> 0,
     temp_mean |-> 0, humidity |-> 0, wind_speed |-> 0, sunshine_hours |-> None,
     solar_radiation |-> 0, elevation |-> 0]

\* ------------------------------------------------------------------------
\* State
\* ------------------------------------------------------------------------
VARIABLES
    weather_data,   \* the argument of process_weather_data
    now,            \* what datetime.now() returns during the call
    pc,             \* position in the call
    lat,            \* local lat
    i,              \* index of the forecast loop (1-based)
    results,        \* local results
    loc,            \* the locals the day blocks assign
    exc,            \* the exception the call raised, or ""
    call,           \* arguments of a direct estimator call
    out             \* outcome of a direct estimator call

vars == <<weather_data, now, pc, lat, i, results, loc, exc, call, out>>

NoOutcome == [ok |-> FALSE, err |-> "", Rs |-> 0, Ra |-> 0, v |-> 0]

\* a call of process_weather_data(weather_data) is about to run
Init ==
    /\ weather_data \in Payloads
    /\ now \in Clocks
    /\ pc = "entry"
    /\ lat = 0
    /\ i = 0
    /\ results = <<>>
    /\ loc = NoLocals
    /\ exc = ""
    /\ call = NoCall
    /\ out = NoOutcome

\* a direct call of one of the estimator functions is about to run
InitEst ==
    /\ weather_data = NonePayload
    /\ now = NoClock
    /\ pc = "call"
    /\ lat = 0
    /\ i = 0
    /\ results = <<>>
    /\ loc = NoLocals
    /\ exc = ""
    /\ call \in SolarCalls \cup ET0Calls
    /\ out = NoOutcome

\* ------------------------------------------------------------------------
\* process_weather_data
\* ------------------------------------------------------------------------
\* lines 237-240
CheckInput ==
    /\ pc = "entry"
    /\ pc' = IF weather_data.isNone \/ ~weather_data.hasWeather
             THEN "returned" ELSE "location"
    /\ UNCHANGED <<weather_data, now, lat, i, results, loc, exc, call, out>>

\* lines 243-249 without the test len(...) > 0: [0] of an empty list raises
LocationUnguarded(wd) ==
    IF wd.nearest_area.present
    THEN IF Len(wd.nearest_area.items) = 0 THEN Raise("IndexError")
         ELSE FloatOf(wd.nearest_area.items[1].latitude)
    ELSE ReturnValue(Num(DEFAULT_LAT))

\* lines 243-249
Location(wd) ==
    IF wd.nearest_area.present /\ Len(wd.nearest_area.items) > 0
    THEN LET la == FloatOf(wd.nearest_area.items[1].latitude)
             lo == FloatOf(wd.nearest_area.items[1].longitude)
         IN  IF ~la.ok THEN la ELSE IF ~lo.ok THEN lo ELSE la
    ELSE ReturnValue(Num(DEFAULT_LAT))

ResolveLocation ==
    /\ pc = "location"
    /\ \E r \in {Location(weather_data)} :
           IF r.ok
           THEN /\ lat' = r.v
                /\ pc' = "today"
                /\ exc' = exc
           ELSE /\ lat' = lat
                /\ pc' = "raised"
                /\ exc' = r.err
    /\ UNCHANGED <<weather_data, now, i, results, loc, call, out>>

\* the condition of line 252 together with that of line 256
TodayGuard(wd) ==
    /\ wd.current_condition.present
    /\ Len(wd.current_condition.items) > 0
    /\ Len(wd.weather) > 0

\* lines 251-291
ProcessToday ==
    /\ pc = "today"
    /\ IF TodayGuard(weather_data)
       THEN \E r \in {TodayBlock(now, weather_data.weather[1],
                                   weather_data.current_condition.items[1], lat)} :
                IF r.ok
                THEN /\ results' = Append(results, Record(r.date, r.loc))
                     /\ loc' = r.loc
                     /\ pc' = "loop"
                     /\ exc' = exc
                ELSE /\ pc' = "raised"
                     /\ exc' = r.err
                     /\ UNCHANGED <<results, loc>>
       ELSE /\ pc' = "loop"
            /\ UNCHANGED <<results, loc, exc>>
    /\ i' = 1
    /\ UNCHANGED <<weather_data, now, lat, call, out>>

\* weather_data['weather'][:14]
Sliced(weather) == SubSeq(weather, 1, Min(Len(weather), FORECAST_SLICE))

\* line 296
SkipToday(wd, idx) == idx = 1 /\ wd.current_condition.present

\* one iteration of the loop of lines 294-334
ForecastStep ==
    /\ pc = "loop"
    /\ i <= Len(Sliced(weather_data.weather))
    /\ IF SkipToday(weather_data, i)
       THEN /\ i' = i + 1
            /\ UNCHANGED <<results, loc, pc, exc>>
       ELSE \E r \in {ForecastBlock(Sliced(weather_data.weather)[i], lat)} :
                IF r.ok
                THEN /\ results' = Append(results, Record(r.date, r.loc))
                     /\ loc' = r.loc
                     /\ i' = i + 1
                     /\ UNCHANGED <<pc, exc>>
                ELSE /\ pc' = "raised"
                     /\ exc' = r.err
                     /\ UNCHANGED <<results, loc, i>>
    /\ UNCHANGED <<weather_data, now, lat, call, out>>

\* line 336
Return ==
    /\ pc = "loop"
    /\ i > Len(Sliced(weather_data.weather))
    /\ pc' = "returned"
    /\ UNCHANGED <<weather_data, now, lat, i, results, loc, exc, call, out>>

\* ------------------------------------------------------------------------
\* Direct calls of the estimator functions
\* ------------------------------------------------------------------------
CallSolarRadiation ==
    /\ pc = "call"
    /\ call.fn = "solar"
    /\ out' = calculate_solar_radiation(call.lat, call.day_of_year, call.temp_max,
                                        call.temp_min, call.humidity,
                                        call.sunshine_hours)
    /\ pc' = IF out'.ok THEN "returned" ELSE "raised"
    /\ exc' = out'.err
    /\ UNCHANGED <<weather_data, now, lat, i, results, loc, call>>

CallPenmanMonteith ==
    /\ pc = "call"
    /\ call.fn = "et0"
    /\ out' = penman_monteith_et0(call.temp_mean, call.temp_max, call.temp_min,
                                  call.humidity, call.wind_speed,
                                  call.solar_radiation, call.elevation)
    /\ pc' = IF out'.ok THEN "returned" ELSE "raised"
    /\ exc' = out'.err
    /\ UNCHANGED <<weather_data, now, lat, i, results, loc, call>>

Next == CheckInput \/ ResolveLocation \/ ProcessToday \/ ForecastStep \/ Return

NextEst == CallSolarRadiation \/ CallPenmanMonteith

Spec == Init /\ [][Next]_vars

SpecEst == InitEst /\ [][NextEst]_vars

\* both kinds of call: process_weather_data, and the estimator functions
\* called directly
InitAll == Init \/ InitEst

NextAll == Next \/ NextEst

SpecAll == InitAll /\ [][NextAll]_vars

\* ------------------------------------------------------------------------
\* Claims
\* ------------------------------------------------------------------------
Ended == pc \in {"returned", "raised"}

EstimatorEnded(fn) == call.fn = fn /\ Ended

CallRawET0 ==
    RawET0(call.temp_mean, call.temp_max, call.temp_min, call.humidity,
           call.wind_speed, call.solar_radiation, call.elevation)

CallPenmanRaises ==
    PenmanRaises(call.temp_mean, call.temp_max, call.temp_min, call.wind_speed,
                 call.elevation)

\* C1: whenever penman_monteith_et0 returns, the value is >= 0; where the
\* raw quotient numerator / denominator is negative the call returns 0 and
\* does not raise; every record appended by process_weather_data has
\* ET0 >= 0.
C1_ET0NonNegative ==
    /\ EstimatorEnded("et0") /\ out.ok => out.v >= 0
    /\ EstimatorEnded("et0") /\ CallPenmanRaises = "" /\ CallRawET0 < 0
         => out.ok /\ out.v = 0
    /\ \A j \in 1..Len(results) : results[j].ET0 >= 0
    /\ loc.et0 >= 0

\* a direct call whose raw quotient is negative has returned 0
C1_Witness ==
    /\ EstimatorEnded("et0")
    /\ CallPenmanRaises = ""
    /\ CallRawET0 < 0
    /\ out.ok
    /\ out.v = 0

\* ---- process_weather_data: what the claims speak about ----
Returned == pc = "returned" /\ call.fn = ""

HasDays == ~weather_data.isNone /\ weather_data.hasWeather /\ Len(weather_data.weather) >= 1

\* D: the provider days after the today entry weather[0]
ForecastDays == Len(weather_data.weather) - 1

\* C2: for a payload with a today entry followed by D forecast days the
\* returned sequence has length min(H, D) + 1, H = 14, for every D >= 0
\* (stated for the payloads on which the today block of lines 252-291 runs).
C2_LengthIsHorizonPlusToday ==
    Returned /\ HasDays /\ TodayGuard(weather_data)
      => Len(results) = Min(FORECAST_SLICE, ForecastDays) + 1

\* C3: with at least one day in 'weather' the returned sequence starts with
\* a today record and holds exactly one record per selected provider day,
\* for every shape of 'current_condition'.
C3_TodayFirstEveryDayOnce ==
    Returned /\ HasDays
      => /\ Len(results) = Len(Sliced(weather_data.weather))
         /\ results[1].Date \in {strftime(now), weather_data.weather[1].date.v}
         /\ \A j \in 2..Len(results) :
               results[j].Date = weather_data.weather[j].date.v

\* ---- C4 ----
NoWeatherSamples ==
    \/ weather_data.isNone
    \/ ~weather_data.hasWeather
    \/ weather_data.weather = <<>>

NoNearestArea ==
    \/ ~weather_data.nearest_area.present
    \/ weather_data.nearest_area.items = <<>>

\* 'nearest_area' is absent or empty, or its first entry holds coordinates
\* float() parses
LocationUsable ==
    \/ NoNearestArea
    \/ /\ weather_data.nearest_area.items[1].latitude.k = "num"
       /\ weather_data.nearest_area.items[1].longitude.k = "num"

CallAcosArg == AcosArg(call.lat, call.day_of_year)

\* C5: with temp_max < temp_min and no sunshine hours the call returns
\* normally with Rs = 0 (stated where the arccos argument is in [-1, 1]).
C5_InvertedEnvelopeGivesZero ==
    /\ EstimatorEnded("solar")
    /\ call.temp_max < call.temp_min
    /\ ~call.sunshine_hours.given
    /\ ~AcosRaises(CallAcosArg)
    => out.ok /\ out.Rs = 0

\* C6: for every latitude and day of year the call returns (Rs, Ra)
\* normally (stated where temp_max >= temp_min, so that no square root of
\* a negative number is involved).
C6_ArccosArgumentClamped ==
    EstimatorEnded("solar") /\ call.temp_max >= call.temp_min => out.ok

\* ---- C7 ----
Singular(temp_mean) == temp_mean = Dec(-2373, 10) \/ temp_mean = Num(-273)

\* C7: a call of penman_monteith_et0 with temp_mean = -237.3 or -273 ends
\* in a raised arithmetic error and never returns a number.
C7_SingularityRaises ==
    EstimatorEnded("et0") /\ Singular(call.temp_mean)
      => /\ pc = "raised"
         /\ ~out.ok
         /\ exc \in {"ZeroDivisionError", "OverflowError"}

\* a call at temp_mean = -273 has raised ZeroDivisionError
C7_Witness ==
    /\ EstimatorEnded("et0")
    /\ call.temp_mean = Num(-273)
    /\ pc = "raised"
    /\ exc = "ZeroDivisionError"

\* ---- C8 ----
\* C8: a failing day never makes the whole call fail or lose earlier
\* records: once a record has been computed the call does not end in an
\* exception, and what it returns holds an entry (record or error marker)
\* for every selected day when 'current_condition' holds a reading.
C8_PerDayIndependence ==
    call.fn = "" =>
      /\ results # <<>> => pc # "raised"
      /\ Returned /\ HasDays /\ TodayGuard(weather_data)
           => Len(results) = Len(Sliced(weather_data.weather))

\* ---- C9 ----
\* C9: the 'Date' values of a returned sequence are strictly ascending
\* (hence pairwise distinct), whatever the clock date is relative to the
\* date of weather[0].
C9_DatesStrictlyAscending ==
    Returned =>
      \A j \in 1..(Len(results) - 1) :
         DateLess(results[j].Date, results[j + 1].Date)

\* ---- C10 ----
\* the mean of the reported values, or the default when none is reported
MeanOrDefault(values, default) ==
    IF values = <<>> THEN default ELSE DivInt(SumSeq(values), Len(values))

ExpectedHumidity(samples) ==
    MeanOrDefault(Reported(samples, "humidity"), Num(DEFAULT_HUMIDITY))

ExpectedWind(samples) ==
    MeanOrDefault(MapKmhToMs(Reported(samples, "windspeedKmph")), Num(DEFAULT_WIND))

\* the today block has just run to its end, or has just raised
AfterToday == call.fn = "" /\ i = 1 /\ TodayGuard(weather_data)

\* the forecast block for weather[i - 1] has just appended its record
AfterForecast ==
    /\ call.fn = ""
    /\ pc \in {"loop", "returned"}
    /\ i >= 2
    /\ ~SkipToday(weather_data, i - 1)

TodayEnvelopeParses ==
    /\ FloatOf(weather_data.weather[1].maxtempC).ok
    /\ FloatOf(weather_data.weather[1].mintempC).ok

\* C10: for every day of the output, today included, humidity and wind
\* speed are the default (50, 2 m/s) exactly when no sample of the day
\* reports the field and the mean of the reported values otherwise (km/h
\* times 0.277778 for wind); a missing field never raises.  Today's sample
\* is the 'current_condition' reading.
C10_DefaultsExactlyWhenUnreported ==
    /\ AfterToday /\ TodayEnvelopeParses => exc # "KeyError"
    /\ AfterToday /\ pc = "loop"
         => /\ loc.humidity = ExpectedHumidity(weather_data.current_condition.items)
            /\ loc.wind_speed = ExpectedWind(weather_data.current_condition.items)
    /\ AfterForecast
         => /\ loc.humidity = ExpectedHumidity(weather_data.weather[i - 1].hourly.items)
            /\ loc.wind_speed = ExpectedWind(weather_data.weather[i - 1].hourly.items)

\* ---- C11 ----
\* the record the today block of lines 257-291 yields when datetime.now()
\* returns clock, the arguments of the call being those of this call
TodayRecordAt(clock) ==
    LET r == TodayBlock(clock, weather_data.weather[1],
                        weather_data.current_condition.items[1], lat)
    IN  IF r.ok THEN Record(r.date, r.loc) ELSE NoLocals

\* C11: the today record depends on the arguments of the call only: the
\* record the today block has appended is the record an invocation with
\* the same arguments appends under every other value of the clock.
C11_TodayIndependentOfClock ==
    AfterToday /\ pc = "loop"
      => \A clock \in Clocks : TodayRecordAt(clock) = results[1]

\* ---- C12 ----
\* the temperatures of the sub-daily samples of weather[i - 1]
SampleTemperatures == Reported(weather_data.weather[i - 1].hourly.items, "tempC")

SampleMean == DivInt(SumSeq(SampleTemperatures), Len(SampleTemperatures))

\* C12: for a forecast day with N >= 1 sub-daily samples, each reporting a
\* temperature, the temp_mean handed to the ET0 computation and the one
\* reported in the record are the arithmetic mean of the samples'
\* temperatures.
C12_TempMeanIsSampleMean ==
    /\ AfterForecast
    /\ Len(weather_data.weather[i - 1].hourly.items) >= 1
    /\ Len(SampleTemperatures) = Len(weather_data.weather[i - 1].hourly.items)
    => /\ loc.temp_mean = SampleMean
       /\ results[Len(results)].TempMean = Round1(SampleMean)

\* ---- C13 ----
\* a thousand times the claimed constant:
\* 0.665 * 101.3 * ((293 - 0.0065 * elevation) / 293) ** 5.26, which is
\* 67.3645 at elevation 0
ClaimedGammaTimes1000(elevation) ==
    Mul(Num(67) + Dec(3645, 10000),
        Pow(Div(Num(293) - Mul(Dec(65, 10000), elevation), Num(293)),
            Dec(526, 100)))

\* C13: the psychrometric constant penman_monteith_et0 computes is
\* 0.665e-3 * 101.3 * ((293 - 0.0065 * elevation) / 293) ** 5.26, and
\* 0.0673645 at elevation 0; both sides are compared a thousandfold, where
\* the claimed value at elevation 0 is the exact scaled integer of 67.3645.
C13_PsychrometricConstant ==
    EstimatorEnded("et0") /\ out.ok =>
      /\ call.elevation = 0 => 1000 * gamma(call.elevation) = Num(67) + Dec(3645, 10000)
      /\ Abs(1000 * gamma(call.elevation) - ClaimedGammaTimes1000(call.elevation)) <= 1

====
